---- MODULE Spec2Model ----
(***************************************************************************)
(* rmsd_plot.py: read a whitespace-delimited table (frame, RMSD), drop the *)
(* rows holding a not-a-number, plot the remaining series and save it.     *)
(*                                                                         *)
(* A file is a sequence of rows, a row a sequence of tokens (strings).     *)
(* A path is a record [dir, name, ext] so that os.path.dirname,            *)
(* os.path.splitext and os.path.join are computed, not assumed.            *)
(* A float is a record [k, v]: k is "num", "nan" or "inf"; v is the value  *)
(* in tenths when k = "num" (0.5 is 5, 1.5 is 15).                         *)
(***************************************************************************)
EXTENDS Integers, Sequences, FiniteSets, TLC

VARIABLES
    argv,      \* the command line: [out, input, log, log_level, color, version]
    pc,        \* position of the script
    fs,        \* the files: path -> content (the rows of the file)
    dirs,      \* the directories that exist
    handler,   \* the logging configuration: [set, path, level]
    df,        \* the value returned by extract_data
    outcome,   \* how the process ended ("running" while it has not)
    events,    \* the calls made and the records emitted, in order
    fs0,       \* the files when the process started
    dirs0      \* the directories when the process started

vars == <<argv, pc, fs, dirs, handler, df, outcome, events, fs0, dirs0>>

(***************************************************************************)
(* Bounds of the model                                                     *)
(***************************************************************************)
MaxRows == 3

(***************************************************************************)
(* Floats as numpy holds them                                              *)
(***************************************************************************)
Num(v) == [k |-> "num", v |-> v]
NaN == [k |-> "nan", v |-> 0]
Inf == [k |-> "inf", v |-> 0]

\* numpy.isnan
isnan(x) == x.k = "nan"

\* float(token): the literals of the model; any other text raises ValueError
IsFloatLiteral(tok) == tok \in {"0", "1.5", "7", "inf", "nan"}

float(tok) ==
    CASE tok = "0" -> Num(0)
      [] tok = "1.5" -> Num(15)
      [] tok = "7" -> Num(70)
      [] tok = "inf" -> Inf
      [] OTHER -> NaN

\* genfromtxt's conversion of one field with dtype=float, missing_values="NA":
\* a missing field takes the filling value (nan); a field float() rejects
\* takes the converter's default (nan) as well.
ConvertField(tok) ==
    IF tok = "NA" THEN NaN
    ELSE IF IsFloatLiteral(tok) THEN float(tok)
    ELSE NaN

\* What a C cast of an out-of-range double to int64 yields depends on the
\* build (INT64_MIN on x86-64, INT64_MAX on aarch64). The two outcomes are
\* represented by these values, outside every frame number of the model.
CastLow == -1000000
CastHigh == 1000000
CastOutcomes == {CastLow, CastHigh}

\* ndarray.astype(int) on one element: truncation toward zero for a number,
\* the build's out-of-range outcome otherwise
astype_int(x, cast) ==
    IF x.k = "num"
    THEN IF x.v >= 0 THEN x.v \div 10 ELSE -((-x.v) \div 10)
    ELSE cast

(***************************************************************************)
(* extract_data                                                            *)
(***************************************************************************)
\* Mutant of SelectRows: the kept rows come out last-first
RECURSIVE SelectRowsReversed(_, _)
SelectRowsReversed(data, mask) ==
    IF data = <<>> THEN <<>>
    ELSE IF Head(mask)
         THEN SelectRowsReversed(Tail(data), Tail(mask)) \o <<Head(data)>>
         ELSE SelectRowsReversed(Tail(data), Tail(mask))

RECURSIVE SelectRows(_, _)
\* data[mask]: the rows whose mask is TRUE, in the order of data
SelectRows(data, mask) ==
    IF data = <<>> THEN <<>>
    ELSE IF Head(mask)
         THEN <<Head(data)>> \o SelectRows(Tail(data), Tail(mask))
         ELSE SelectRows(Tail(data), Tail(mask))

\* numpy.isnan(data).any(axis=1) on one row: a not-a-number in ANY column
RowHasNaN(row) == \E j \in 1..Len(row) : isnan(row[j])

\* ~numpy.isnan(data).any(axis=1): the boolean mask of the rows to keep
KeepMask(data) == [i \in 1..Len(data) |-> ~RowHasNaN(data[i])]

\* numpy.genfromtxt(dat_file, missing_values="NA", dtype=float, comments=None)
\* on the rows of an existing file. Rows of unequal length raise ValueError;
\* the array is squeezed, so that no row, one row or one column give a
\* one-dimensional array.
genfromtxt(rows) ==
    IF \E i \in 1..Len(rows) : Len(rows[i]) # Len(rows[1])
    THEN [err |-> "ValueError", ndim |-> 0, data |-> <<>>]
    ELSE [err |-> "none",
          ndim |-> IF Len(rows) <= 1 \/ Len(rows[1]) <= 1 THEN 1 ELSE 2,
          data |-> [i \in 1..Len(rows) |->
                      [j \in 1..Len(rows[i]) |-> ConvertField(rows[i][j])]]]

\* Mutant of extract_data: a failure to read gives an empty data frame
extract_data_swallow(present, rows, cast) ==
    [err |-> "none", df |-> <<>>, count |-> 0]

\* The body of extract_data on the content of the file (present: whether the
\* path exists). The result: [err, df, count]; df is the data frame as the
\* sequence of its rows [frames, RMSD]; count is the logged number.
extract_data(present, rows, cast) ==
    IF ~present
    THEN [err |-> "FileNotFoundError", df |-> <<>>, count |-> 0]
    ELSE LET arr == genfromtxt(rows) IN
         IF arr.err # "none"
         THEN [err |-> arr.err, df |-> <<>>, count |-> 0]
         ELSE IF arr.ndim # 2
         THEN [err |-> "AxisError", df |-> <<>>, count |-> 0]
         ELSE LET data == SelectRows(arr.data, KeepMask(arr.data))
                  frames == [i \in 1..Len(data) |-> astype_int(data[i][1], cast)]
                  rmsd == [i \in 1..Len(data) |-> data[i][2]]
                  frame == [i \in 1..Len(data) |->
                              [frames |-> frames[i], RMSD |-> rmsd[i]]]
              IN [err |-> "none", df |-> frame, count |-> Len(frame)]

(***************************************************************************)
(* Paths, files and the log                                                *)
(***************************************************************************)
Path(d, n, e) == [dir |-> d, name |-> n, ext |-> e]

\* args.log when --log is not given (None)
NoPath == Path("", "", "")

\* os.path.dirname
dirname(p) == p.dir

\* os.path.splitext(p)[1]
splitext_ext(p) == p.ext

\* Mutant of DefaultLogPath: the log takes the place of the input file
DefaultLogPathAtInput(out_dir) == argv.input

\* os.path.join(out_dir, "rmsd_plot.log"): the default log path
DefaultLogPath(out_dir) == Path(out_dir, "rmsd_plot", ".log")

\* os.path.exists
exists(files, p) == p \in DOMAIN files

\* os.remove
remove(files, p) == [q \in (DOMAIN files) \ {p} |-> files[q]]

\* open(p, "w") and write: the file holds content, whatever it held
write(files, p, content) ==
    [q \in (DOMAIN files) \cup {p} |-> IF q = p THEN content ELSE files[q]]

\* a write through a stream opened in append mode
append(files, p, row) ==
    write(files, p, (IF exists(files, p) THEN files[p] ELSE <<>>) \o <<row>>)

\* logging's level numbers, for the names create_log accepts
LevelNo(name) ==
    CASE name = "DEBUG" -> 10
      [] name = "INFO" -> 20
      [] name = "WARNING" -> 30
      [] name = "ERROR" -> 40
      [] name = "CRITICAL" -> 50

\* create_log's choice of the level: INFO when --log-level is not given
LogLevelOf(level) == IF level = "None" THEN LevelNo("INFO") ELSE LevelNo(level)

\* One record in the format "%(asctime)s %(levelname)s:\t%(message)s" with
\* the date format "%Y/%m/%d %H:%M:%S", as the tokens of its line
LogRow(levelname, message) == <<"Y/m/d", "H:M:S", levelname>> \o message

VersionMsg == <<"version:", "1.0.0">>
CmdMsg == <<"CMD:", "rmsd_plot.py", "-o", "OUT", "-t", "TITLE", "INPUT">>
CountMsg(n) ==
    <<ToString(n), "frames", "RMSD", "values", "extracted", "for", "the",
      "RMSD", "plot.">>
ColorErrorMsg ==
    <<"COLOR", "is", "not", "a", "valid", "color.", "Choose", "a", "color",
      "in:", "COLORS">>
CreatedMsg == <<"RMSD", "plot", "created:", "ABSPATH">>

\* whether the root logger's level lets a record of this level through
Emits(h, levelname) == h.set /\ LevelNo(levelname) >= h.level

\* logging.info / logging.error: the files after the record is handled
Log(files, h, levelname, message) ==
    IF Emits(h, levelname)
    THEN append(files, h.path, LogRow(levelname, message))
    ELSE files

\* the entry of the history for a record, when it is emitted
LogEvent(h, levelname, tag) ==
    IF Emits(h, levelname) THEN <<tag>> ELSE <<>>

\* what savefig writes
Artifact == <<<<"ARTIFACT">>>>

\* what a file left by an earlier run holds
Stale == <<<<"STALE">>>>

(***************************************************************************)
(* The command line                                                        *)
(***************************************************************************)
\* Mutant of restricted_extension: the check accepts every extension
restricted_extension_any(out_file) == TRUE

\* restricted_extension: TRUE when it returns the path, FALSE when it raises
\* argparse.ArgumentTypeError
restricted_extension(out_file) ==
    splitext_ext(out_file) \in
        {".jpg", ".jpeg", ".pdf", ".pgf", ".png", ".ps", ".raw", ".rgba",
         ".svg", ".svgz", ".tif", ".tiff"}

\* parser.parse_args(): the options are handled in the order of the command
\* line. The version action prints the version and exits 0 where it stands;
\* a value its type function rejects ends the run with a usage error, 2.
parse_args(a) ==
    IF a.version = "before_out" THEN "version"
    ELSE IF ~restricted_extension(a.out) THEN "usage_error"
    ELSE IF a.version = "after_out" THEN "version"
    ELSE "parsed"

\* the exit status of the process for each way it ends
ExitCode(o) ==
    CASE o = "ok" -> 0
      [] o = "version" -> 0
      [] o = "usage_error" -> 2
      [] o = "sys_exit_1" -> 1
      [] o = "traceback" -> 1

\* the log path the script uses
LogPath(a) == IF a.log # NoPath THEN a.log ELSE DefaultLogPath(dirname(a.out))

\* whether matplotlib knows the color
is_color(c) == c \in {"blue", "red"}

\* sns.lineplot(data=src, x="frames", y="RMSD", color=color): the line is
\* drawn, or ValueError is raised for an unknown color. What an empty frame
\* gives is decided by the installed seaborn and pandas, not by this program:
\* all three outcomes are possible.
LineplotOutcomes(frame, color) ==
    IF frame = <<>> THEN {"drawn", "ValueError", "OtherError"}
    ELSE IF is_color(color) THEN {"drawn"}
    ELSE {"ValueError"}

(***************************************************************************)
(* The script, step by step                                                *)
(***************************************************************************)
Exit(o) == pc' = "exited" /\ outcome' = o

\* lines 145-165, --version met before anything was rejected
ParseArgsVersion ==
    /\ pc = "parse_args"
    /\ parse_args(argv) = "version"
    /\ Exit("version")
    /\ UNCHANGED <<argv, fs, dirs, handler, df, events, fs0, dirs0>>

\* lines 145-165, the type function of --out raises
ParseArgsError ==
    /\ pc = "parse_args"
    /\ parse_args(argv) = "usage_error"
    /\ Exit("usage_error")
    /\ UNCHANGED <<argv, fs, dirs, handler, df, events, fs0, dirs0>>

\* lines 145-165, the command line is accepted
ParseArgsOk ==
    /\ pc = "parse_args"
    /\ parse_args(argv) = "parsed"
    /\ pc' = "makedirs"
    /\ UNCHANGED <<argv, fs, dirs, handler, df, outcome, events, fs0, dirs0>>

\* lines 167-168: os.makedirs(os.path.dirname(args.out), exist_ok=True).
\* os.makedirs("") raises FileNotFoundError.
MakeDirs ==
    /\ pc = "makedirs"
    /\ LET out_dir == dirname(argv.out) IN
       IF out_dir = ""
       THEN /\ Exit("traceback")
            /\ events' = events \o <<"makedirs", "FileNotFoundError">>
            /\ UNCHANGED dirs
       ELSE /\ pc' = "create_log"
            /\ dirs' = dirs \cup {out_dir}
            /\ events' = events \o <<"makedirs">>
            /\ UNCHANGED outcome
    /\ UNCHANGED <<argv, fs, handler, df, fs0, dirs0>>

\* lines 170-175 and create_log: a file at the log path is removed, then
\* logging.FileHandler opens the path for appending, which creates the file
\* and fails when its directory does not exist.
CreateLog ==
    /\ pc = "create_log"
    /\ LET log_path == LogPath(argv)
           cleared == IF exists(fs, log_path) THEN remove(fs, log_path) ELSE fs
       IN IF dirname(log_path) \notin dirs
          THEN /\ Exit("traceback")
               /\ fs' = cleared
               /\ events' = events \o <<"create_log", "FileNotFoundError">>
               /\ UNCHANGED handler
          ELSE /\ pc' = "log_header"
               /\ fs' = write(cleared, log_path, <<>>)
               /\ handler' = [set |-> TRUE, path |-> log_path,
                              level |-> LogLevelOf(argv.log_level)]
               /\ events' = events \o <<"create_log">>
               /\ UNCHANGED outcome
    /\ UNCHANGED <<argv, dirs, df, fs0, dirs0>>

\* Mutant of LogHeader: the command line is logged before the version
LogHeaderSwapped ==
    /\ pc = "log_header"
    /\ fs' = Log(Log(fs, handler, "INFO", CmdMsg), handler, "INFO", VersionMsg)
    /\ events' = events \o LogEvent(handler, "INFO", "log:CMD")
                        \o LogEvent(handler, "INFO", "log:version")
    /\ pc' = "extract_data"
    /\ UNCHANGED <<argv, dirs, handler, df, outcome, fs0, dirs0>>

\* lines 177-178: the version and the command line are logged
LogHeader ==
    /\ pc = "log_header"
    /\ fs' = Log(Log(fs, handler, "INFO", VersionMsg), handler, "INFO", CmdMsg)
    /\ events' = events \o LogEvent(handler, "INFO", "log:version")
                        \o LogEvent(handler, "INFO", "log:CMD")
    /\ pc' = "extract_data"
    /\ UNCHANGED <<argv, dirs, handler, df, outcome, fs0, dirs0>>

\* line 180 and extract_data: an exception is not caught anywhere (the history
\* takes its name)
ExtractData ==
    /\ pc = "extract_data"
    /\ \E cast \in CastOutcomes :
         LET present == exists(fs, argv.input)
             r == extract_data(present, IF present THEN fs[argv.input] ELSE <<>>, cast)
         IN IF r.err # "none"
            THEN /\ Exit("traceback")
                 /\ events' = events \o <<"extract_data", r.err>>
                 /\ UNCHANGED <<fs, df>>
            ELSE /\ pc' = "plot_rmsd"
                 /\ df' = r.df
                 /\ fs' = Log(fs, handler, "INFO", CountMsg(r.count))
                 /\ events' = events \o <<"extract_data">>
                                     \o LogEvent(handler, "INFO", "log:count")
                 /\ UNCHANGED outcome
    /\ UNCHANGED <<argv, dirs, handler, fs0, dirs0>>

\* line 181 and plot_rmsd: ValueError from the plot is reported as an invalid
\* color and the process exits 1; otherwise the figure is saved at the output
\* path and the path is logged.
PlotRmsd ==
    /\ pc = "plot_rmsd"
    /\ \E res \in LineplotOutcomes(df, argv.color) :
         CASE res = "ValueError" ->
                /\ Exit("sys_exit_1")
                /\ fs' = Log(fs, handler, "ERROR", ColorErrorMsg)
                /\ events' = events \o <<"plot_rmsd", "lineplot">>
                                    \o LogEvent(handler, "ERROR", "log:color_error")
           [] res = "drawn" ->
                /\ Exit("ok")
                /\ fs' = Log(write(fs, argv.out, Artifact), handler, "INFO", CreatedMsg)
                /\ events' = events \o <<"plot_rmsd", "lineplot", "savefig">>
                                    \o LogEvent(handler, "INFO", "log:created")
           [] OTHER ->
                /\ Exit("traceback")
                /\ events' = events \o <<"plot_rmsd", "lineplot", "OtherError">>
                /\ UNCHANGED fs
    /\ UNCHANGED <<argv, dirs, handler, df, fs0, dirs0>>

Next ==
    \/ ParseArgsVersion
    \/ ParseArgsError
    \/ ParseArgsOk
    \/ MakeDirs
    \/ CreateLog
    \/ LogHeader
    \/ ExtractData
    \/ PlotRmsd

(***************************************************************************)
(* The runs of the model                                                   *)
(***************************************************************************)
DatPath == Path("", "rmsd", ".dat")
OutPng == Path("res", "plot", ".png")
OutCwd == Path("", "plot", ".png")
OutTxt == Path("res", "plot", ".txt")
ResLog == Path("res", "rmsd_plot", ".log")
RunLog == Path("logs", "run", ".log")

Outs == {OutPng, OutCwd, OutTxt}
Inputs == {DatPath, ResLog, OutPng}
Logs == {NoPath, RunLog, DatPath, OutPng}
LogLevels == {"None", "DEBUG", "INFO", "WARNING", "ERROR", "CRITICAL"}
Colors == {"blue", "notacolor"}
Versions == {"absent", "before_out", "after_out"}
DirStates == {{""}, {"", "res"}, {"", "res", "logs"}}

Argvs ==
    [out : Outs, input : Inputs, log : Logs, log_level : LogLevels,
     color : Colors, version : Versions]

\* the input files of the whole-run specification
SampleFiles ==
    { <<>>,
      << <<"0", "1.5">> >>,
      << <<"0", "NA">> >>,
      << <<"0", "1.5">>, <<"1.5", "NA">>, <<"7", "0">> >>,
      << <<"0", "NA">>, <<"NA", "1.5">> >>,
      << <<"0", "1.5">>, <<"1.5", "inf">> >> }

NoHandler == [set |-> FALSE, path |-> NoPath, level |-> 0]

\* the files at the start: the input file (when it exists) and files left at
\* the output and log paths by earlier runs, each in an existing directory
StartFiles(a, present, rows, stale) ==
    [p \in (IF present THEN {a.input} ELSE {}) \cup stale |->
        IF present /\ p = a.input THEN rows ELSE Stale]

Init ==
    /\ argv \in Argvs
    /\ dirs0 \in DirStates
    /\ \E present \in BOOLEAN, rows \in SampleFiles :
       \E stale \in SUBSET ({argv.out, LogPath(argv)} \ {argv.input}) :
          fs0 = StartFiles(argv, present, rows, stale)
    /\ \A p \in DOMAIN fs0 : dirname(p) \in dirs0
    /\ fs = fs0
    /\ dirs = dirs0
    /\ pc = "parse_args"
    /\ handler = NoHandler
    /\ df = <<>>
    /\ outcome = "running"
    /\ events = <<>>

Spec == Init /\ [][Next]_vars

(***************************************************************************)
(* extract_data alone, on every file of the bounded set                    *)
(***************************************************************************)
Tokens == {"0", "1.5", "NA", "inf", "abc"}

\* rows of two fields, and rows with a third field
Rows ==
    {<<f, r>> : f \in Tokens, r \in Tokens}
    \cup {<<"0", r, x>> : r \in {"1.5", "NA"}, x \in {"7", "NA"}}

Files == UNION {[1..n -> Rows] : n \in 0..MaxRows}

ExtractArgv ==
    [out |-> OutPng, input |-> DatPath, log |-> NoPath, log_level |-> "None",
     color |-> "blue", version |-> "absent"]

\* the state in which line 180 is reached by a run of ExtractArgv
InitExtract ==
    /\ argv = ExtractArgv
    /\ dirs0 = {"", "res"}
    /\ \E rows \in Files : fs0 = StartFiles(argv, TRUE, rows, {})
    /\ handler = [set |-> TRUE, path |-> ResLog, level |-> LogLevelOf("None")]
    /\ fs = Log(Log(write(fs0, ResLog, <<>>), handler, "INFO", VersionMsg),
                handler, "INFO", CmdMsg)
    /\ dirs = dirs0
    /\ pc = "extract_data"
    /\ df = <<>>
    /\ outcome = "running"
    /\ events = <<"makedirs", "create_log", "log:version", "log:CMD">>

NextExtract == ExtractData

SpecExtract == InitExtract /\ [][NextExtract]_vars

(***************************************************************************)
(* Vocabulary of the claims                                                *)
(***************************************************************************)
Final == pc = "exited"

\* the rows of the input file as the process found it
InputRows == fs0[argv.input]

\* a field that is the "NA" sentinel or not a valid number
SentinelField(tok) == tok \notin {"0", "1.5", "7", "inf"}

\* the rows of a file with a sentinel in the frame or the RMSD field
SentinelRows(rows) ==
    {i \in 1..Len(rows) : SentinelField(rows[i][1]) \/ SentinelField(rows[i][2])}

\* the rows of a file with a sentinel in any field
AnySentinelRows(rows) ==
    {i \in 1..Len(rows) : \E j \in 1..Len(rows[i]) : SentinelField(rows[i][j])}

\* the k-th smallest element of a set of indices
Nth(S, k) == CHOOSE i \in S : Cardinality({j \in S : j < i}) = k - 1

\* the value of a number token in tenths
TenthsOf(tok) == CASE tok = "0" -> 0 [] tok = "1.5" -> 15 [] tok = "7" -> 70

\* record d is what row gives: its frame truncated to an integer (whatever
\* the cast gives for an infinite frame), its RMSD value
RecordOf(row, d) ==
    /\ IF row[1] = "inf" THEN d.frames \in CastOutcomes
       ELSE d.frames = TenthsOf(row[1]) \div 10
    /\ IF row[2] = "inf" THEN d.RMSD = Inf ELSE d.RMSD = Num(TenthsOf(row[2]))

\* positions of an entry in the history
Pos(e) == {i \in 1..Len(events) : events[i] = e}
Called(e) == Pos(e) # {}
Before(a, b) == \A i \in Pos(a), j \in Pos(b) : i < j

\* the extensions the specification lists
SupportedExt ==
    {".jpg", ".jpeg", ".pdf", ".pgf", ".png", ".ps", ".raw", ".rgba", ".svg",
     ".svgz", ".tif", ".tiff"}

\* the log path as the interface describes it: --log, or rmsd_plot.log in the
\* output directory
StatedLogPath ==
    IF argv.log # NoPath THEN argv.log
    ELSE [dir |-> argv.out.dir, name |-> "rmsd_plot", ext |-> ".log"]

HasArtifact(files, p) ==
    p \in DOMAIN files /\ \E i \in 1..Len(files[p]) : files[p][i] = <<"ARTIFACT">>

\* the log file holds the four lines of a successful run, in this order
LogInOrder(lines, n) ==
    \E i, j, k, l \in 1..Len(lines) :
        /\ i < j /\ j < k /\ k < l
        /\ lines[i] = <<"Y/m/d", "H:M:S", "INFO", "version:", "1.0.0">>
        /\ Len(lines[j]) > 3 /\ lines[j][4] = "CMD:"
        /\ Len(lines[k]) > 4 /\ lines[k][4] = ToString(n) /\ lines[k][5] = "frames"
        /\ Len(lines[l]) > 5 /\ lines[l][6] = "created:"

\* a run the claims about the whole pipeline call usual: the command line is
\* accepted, the log has a path of its own in an existing directory, the
\* records of level INFO are logged, the input file exists, is neither the log
\* nor the output, and has two rows or more of equal length
UsualRun ==
    /\ argv.version = "absent"
    /\ argv.out.ext \in SupportedExt
    /\ argv.log_level \in {"None", "DEBUG", "INFO"}
    /\ argv.input \in DOMAIN fs0
    /\ StatedLogPath \notin {argv.input, argv.out}
    /\ argv.input # argv.out
    /\ (argv.log # NoPath => argv.log.dir \in dirs0)
    /\ Len(InputRows) >= 2

(***************************************************************************)
(* Claims about extract_data (SpecExtract)                                 *)
(***************************************************************************)
Returned == pc = "plot_rmsd"

\* C1: for every input file, extract_data returns a dataset whose length is
\* the number of rows minus the rows with a sentinel in the frame or RMSD
\* field, and logs that length.
C1_LengthIsRowsMinusSentinels ==
    pc # "extract_data" =>
        /\ Returned
        /\ Len(df) = Len(InputRows) - Cardinality(SentinelRows(InputRows))
        /\ fs[handler.path][Len(fs[handler.path])]
             = LogRow("INFO", CountMsg(Len(df)))

\* C2: the records of the returned dataset are the surviving rows in the
\* order of the file, frame and RMSD of one row paired in one record, no
\* row twice.
C2_OrderPreserved ==
    Returned =>
        LET kept == (1..Len(InputRows)) \ AnySentinelRows(InputRows) IN
        /\ Len(df) = Cardinality(kept)
        /\ \A k \in 1..Len(df) : RecordOf(InputRows[Nth(kept, k)], df[k])

C2_Witness ==
    /\ Returned
    /\ Len(InputRows) = 3
    /\ AnySentinelRows(InputRows) = {2}
    /\ Len(df) = 2
    /\ df[1] # df[2]

\* C9: every returned dataset is no longer than the input and every element
\* has a finite integer frame and a finite RMSD.
C9_AllFinite ==
    Returned =>
        /\ Len(df) <= Len(InputRows)
        /\ \A k \in 1..Len(df) :
             /\ df[k].frames \in Int
             /\ df[k].frames \notin CastOutcomes
             /\ df[k].RMSD.k = "num"

(***************************************************************************)
(* Claims about a run (Spec)                                               *)
(***************************************************************************)
NothingDone == fs = fs0 /\ dirs = dirs0 /\ events = <<>> /\ ~handler.set

\* C3 as stated: with an unsupported extension of --out every run ends with a
\* usage error and a non-zero exit, and nothing is created, removed or called.
C3_BadExtensionAlwaysError ==
    (Final /\ argv.out.ext \notin SupportedExt) =>
        /\ outcome = "usage_error"
        /\ ExitCode(outcome) # 0
        /\ NothingDone

\* C3 amended: with an unsupported extension of --out nothing is ever created,
\* removed or called; the run ends with a usage error and exit status 2,
\* unless --version stands before --out: then it ends printing the version,
\* with exit status 0.
C3_BadExtensionNothingDone ==
    argv.out.ext \notin SupportedExt =>
        /\ NothingDone
        /\ Final =>
             IF argv.version = "before_out"
             THEN outcome = "version" /\ ExitCode(outcome) = 0
             ELSE outcome = "usage_error" /\ ExitCode(outcome) = 2

C3_Witness ==
    /\ Final
    /\ argv.out.ext \notin SupportedExt
    /\ argv.version = "after_out"
    /\ outcome = "usage_error"
    /\ argv.out.dir \notin dirs0
    /\ argv.input \in DOMAIN fs0

\* C4: with an unknown color and a valid dataset, extraction succeeds and its
\* count is logged, then the invalid color is reported at error level, then
\* the process exits 1; nothing is saved and no "plot created" line is logged.
C4_InvalidColorFlow ==
    (Final /\ UsualRun /\ argv.color = "notacolor") =>
        /\ Called("extract_data") /\ Called("log:count")
        /\ Called("log:color_error")
        /\ Before("extract_data", "log:count")
        /\ Before("log:count", "log:color_error")
        /\ outcome = "sys_exit_1" /\ ExitCode(outcome) = 1
        /\ ~Called("savefig") /\ ~Called("log:created")
        /\ ~HasArtifact(fs, argv.out)

\* C5: with a valid input file, a known color and a supported extension, with
\* or without a directory in --out and with or without a file at that path,
\* the run exits 0 and has written the artifact at the path, and only there.
C5_SuccessWritesArtifact ==
    (Final /\ UsualRun /\ argv.color = "blue") =>
        /\ outcome = "ok" /\ ExitCode(outcome) = 0
        /\ fs[argv.out] = <<<<"ARTIFACT">>>>
        /\ \A p \in DOMAIN fs : HasArtifact(fs, p) => p = argv.out

FourLinesLogged ==
    /\ LogInOrder(fs[handler.path], Len(df))
    /\ Called("log:count") /\ Called("log:created")
    /\ Before("log:count", "plot_rmsd")
    /\ Before("savefig", "log:created")

\* C7 as stated: after every successful run (here: of one that plotted a
\* record or more), whatever the options, the log file holds the four lines
\* in order.
C7_LogLinesEveryOption == (outcome = "ok" /\ df # <<>>) => FourLinesLogged

\* C7 amended: after every successful run whose log level is DEBUG or INFO
\* (INFO is the default) and whose log path is not the output path, the log
\* file holds the version, the command line, the record count and the
\* output path in this order; the count is logged before rendering starts
\* and the path after the figure is saved.
C7_LogLinesAtInfo ==
    (/\ outcome = "ok"
     /\ argv.log_level \in {"None", "DEBUG", "INFO"}
     /\ StatedLogPath # argv.out) => FourLinesLogged

C7_Witness ==
    /\ outcome = "ok"
    /\ argv.log_level = "DEBUG"
    /\ argv.log = RunLog
    /\ Len(df) = 2
    /\ Len(fs[RunLog]) = 4

\* C8: an input file whose rows all hold a sentinel (one row or more) gives a
\* dataset of length 0 without failing; the renderer then plots it or stops
\* otherwise than with the invalid-color exit.
C8_AllSentinelHandled ==
    (/\ Final
     /\ Called("extract_data")
     /\ argv.input \in DOMAIN fs0
     /\ argv.input \notin {StatedLogPath, argv.out}
     /\ Len(InputRows) >= 1
     /\ SentinelRows(InputRows) = 1..Len(InputRows)) =>
        /\ Called("plot_rmsd")
        /\ df = <<>>
        /\ outcome # "sys_exit_1"

\* C10 as stated: whatever the paths, the input file is there with its
\* content when the process ends.
C10_InputNeverTouched ==
    (Final /\ argv.input \in DOMAIN fs0) =>
        argv.input \in DOMAIN fs /\ fs[argv.input] = fs0[argv.input]

\* C10 amended: when the input path is neither the log path (given by --log,
\* or rmsd_plot.log in the output directory) nor the output path, the input
\* file keeps its content at every step of the run, however the run ends.
C10_InputKeptUnlessAliased ==
    (/\ argv.input \in DOMAIN fs0
     /\ argv.input # StatedLogPath
     /\ argv.input # argv.out) =>
        argv.input \in DOMAIN fs /\ fs[argv.input] = fs0[argv.input]

C10_Witness ==
    /\ Final
    /\ outcome = "ok"
    /\ argv.input \in DOMAIN fs0
    /\ argv.input # StatedLogPath
    /\ StatedLogPath \in DOMAIN fs0
    /\ argv.out \in DOMAIN fs0
    /\ fs[argv.input] = fs0[argv.input]

====
